---------------------------- MODULE Spec2Model ----------------------------
(***************************************************************************)
(* Model of gen_asset_model.py: the mapping of Data River thing classes    *)
(* and tag groups to AWS SiteWise asset model documents.                   *)
(*                                                                         *)
(* Python values that may be None are tagged records: None is              *)
(* [py |-> "None"] and a str s is [py |-> "str", v |-> s].  A dict is a    *)
(* function on its keys, a list is a sequence, a dataclass instance is a   *)
(* record with a cls field.  Names that are always str are plain strings.  *)
(***************************************************************************)
EXTENDS Integers, Sequences, FiniteSets, TLC

VARIABLES
    things,          \* tcr.thing_classes, the discovered thing classes
    discovered,      \* ids the discovered tag group registry can resolve
    pc,              \* position of main()
    ti,              \* index of tc in the loop of main()
    gi,              \* index of tg in the comprehension of map_thing_class
    i,               \* loop variable of find_tag_group
    trace,           \* lookups and sleeps of the running find_tag_group call
    elapsed,         \* milliseconds slept by the running find_tag_group call
    ret,             \* value returned by find_tag_group
    resolved,        \* res of every map_output_tag_group call of this thing
    properties,      \* properties of map_thing_class
    mapped_outputs,  \* mapped_outputs of map_thing_class
    model,           \* model of main()
    files,           \* the files written, path -> the dict given to json.dump
    op,              \* the function applied last (function-level checks)
    arg,             \* its argument
    out              \* its result

vars == <<things, discovered, pc, ti, gi, i, trace, elapsed, ret, resolved,
          properties, mapped_outputs, model, files, op, arg, out>>

mainVars == <<things, discovered, pc, ti, gi, i, trace, elapsed, ret,
              resolved, properties, mapped_outputs, model, files>>

callVars == <<op, arg, out>>

---------------------------------------------------------------------------
(* Python values *)

None == [py |-> "None"]

Str(s) == [py |-> "str", v |-> s]

RECURSIVE Flatten(_)
Flatten(ss) == IF ss = <<>> THEN <<>> ELSE Head(ss) \o Flatten(Tail(ss))

RECURSIVE SeqsUpTo(_, _)
SeqsUpTo(S, n) ==
    IF n = 0 THEN {<<>>}
    ELSE LET shorter == SeqsUpTo(S, n - 1)
         IN  shorter \cup {Append(s, e) : s \in shorter, e \in S}

---------------------------------------------------------------------------
(* Bounds *)

MaxThings == 2

MaxVars == 1

---------------------------------------------------------------------------
(* AWS SiteWise classes *)

AwsModelAttribute(name, data_type, unit, default_value) ==
    [cls |-> "AwsModelAttribute", name |-> name, data_type |-> data_type,
     unit |-> unit, default_value |-> default_value]

AwsModelMeasurement(name, data_type, unit) ==
    [cls |-> "AwsModelMeasurement", name |-> name, data_type |-> data_type,
     unit |-> unit]

AwsModelVariable(name, property_id, hierarchy_id) ==
    [cls |-> "AwsModelVariable", name |-> name, property_id |-> property_id,
     hierarchy_id |-> hierarchy_id]

AwsModelTransform(name, data_type, unit, expression, variables) ==
    [cls |-> "AwsModelTransform", name |-> name, data_type |-> data_type,
     unit |-> unit, expression |-> expression, variables |-> variables]

AwsModelMetricWindow(interval) ==
    [cls |-> "AwsModelMetricWindow", interval |-> interval]

AwsModelMetric(name, data_type, unit, expression, variables, window) ==
    [cls |-> "AwsModelMetric", name |-> name, data_type |-> data_type,
     unit |-> unit, expression |-> expression, variables |-> variables,
     window |-> window]

AwsModelAssertHierarchy(name, child_id) ==
    [cls |-> "AwsModelAssertHierarchy", name |-> name, child_id |-> child_id]

AwsAssetModel(name, description, props, hierarchies) ==
    [cls |-> "AwsAssetModel", name |-> name, description |-> description,
     properties |-> props, hierarchies |-> hierarchies]

AwsModelVariable_to_dict(self) ==
    LET value0 == <<>>
        value1 == IF self.property_id # None
                  THEN value0 @@ ("propertyId" :> self.property_id)
                  ELSE value0
        value2 == IF self.hierarchy_id # None
                  THEN value1 @@ ("hierarchyId" :> self.hierarchy_id)
                  ELSE value1
    IN  [name |-> self.name, value |-> value2]

AwsModelMetricWindow_to_dict(self) ==
    [tumbling |-> [interval |-> self.interval]]

\* _type_dict of the class of self; AwsModelMetric._type_dict builds its
\* dict and has no return statement, so the call evaluates to None.
_type_dict(self) ==
    CASE self.cls = "AwsModelAttribute" ->
            [attribute |-> [defaultValue |-> self.default_value]]
      [] self.cls = "AwsModelMeasurement" ->
            [measurement |-> <<>>]
      [] self.cls = "AwsModelTransform" ->
            [transform |->
                [expression |-> self.expression,
                 variables |-> [n \in 1..Len(self.variables) |->
                                   AwsModelVariable_to_dict(self.variables[n])]]]
      [] self.cls = "AwsModelMetric" -> None
      [] OTHER -> <<>>

AwsModelProperty_to_dict_keepunit(self) ==
    [name |-> self.name, dataType |-> self.data_type,
     type |-> _type_dict(self), unit |-> self.unit]

AwsModelProperty_to_dict(self) ==
    LET result == [name |-> self.name, dataType |-> self.data_type,
                   type |-> _type_dict(self)]
    IN  IF self.unit # None
        THEN result @@ ("unit" :> self.unit)
        ELSE result

AwsModelAssertHierarchy_to_dict(self) ==
    [name |-> self.name, childAssetModelId |-> self.child_id]

AwsAssetModel_to_dict(self) ==
    [assetModelName |-> self.name,
     assetModelDescription |-> self.description,
     assetModelProperties |->
        [n \in 1..Len(self.properties) |->
            AwsModelProperty_to_dict(self.properties[n])],
     assetModelHiearchies |->
        [n \in 1..Len(self.hierarchies) |->
            AwsModelAssertHierarchy_to_dict(self.hierarchies[n])]]

---------------------------------------------------------------------------
(* Model mapping functions *)

RetryCount == 50

SleepMs == 100

IotTypeScalars ==
    {"TYPE_BYTE", "TYPE_UINT16", "TYPE_UINT32", "TYPE_UINT64", "TYPE_INT8",
     "TYPE_INT16", "TYPE_INT32", "TYPE_INT64", "TYPE_FLOAT32", "TYPE_FLOAT64",
     "TYPE_BOOLEAN", "TYPE_STRING", "TYPE_CHAR"}

IotTypeSeqs == {k \o "_SEQ" : k \in IotTypeScalars}

\* the members of IotType the script names
IotType == IotTypeScalars \cup IotTypeSeqs

\* a value of tag.kind that is not a key of type_mapping
UnknownKinds == {"TYPE_FUTURE"}

type_mapping_uint64_integer ==
    [k \in IotType |->
        CASE k \in {"TYPE_BYTE", "TYPE_UINT16", "TYPE_UINT32", "TYPE_UINT64",
                    "TYPE_INT8", "TYPE_INT16", "TYPE_INT32", "TYPE_INT64"}
                -> Str("INTEGER")
          [] k \in {"TYPE_FLOAT32", "TYPE_FLOAT64"} -> Str("DOUBLE")
          [] k = "TYPE_BOOLEAN" -> Str("BOOLEAN")
          [] k = "TYPE_STRING" -> Str("STRING")
          [] OTHER -> None]

type_mapping ==
    ("TYPE_BYTE" :> Str("INTEGER")) @@
    ("TYPE_UINT16" :> Str("INTEGER")) @@
    ("TYPE_UINT32" :> Str("INTEGER")) @@
    ("TYPE_UINT64" :> None) @@
    ("TYPE_INT8" :> Str("INTEGER")) @@
    ("TYPE_INT16" :> Str("INTEGER")) @@
    ("TYPE_INT32" :> Str("INTEGER")) @@
    ("TYPE_INT64" :> Str("INTEGER")) @@
    ("TYPE_FLOAT32" :> Str("DOUBLE")) @@
    ("TYPE_FLOAT64" :> Str("DOUBLE")) @@
    ("TYPE_BOOLEAN" :> Str("BOOLEAN")) @@
    ("TYPE_STRING" :> Str("STRING")) @@
    ("TYPE_CHAR" :> None) @@
    ("TYPE_BYTE_SEQ" :> None) @@
    ("TYPE_UINT16_SEQ" :> None) @@
    ("TYPE_UINT32_SEQ" :> None) @@
    ("TYPE_UINT64_SEQ" :> None) @@
    ("TYPE_INT8_SEQ" :> None) @@
    ("TYPE_INT16_SEQ" :> None) @@
    ("TYPE_INT32_SEQ" :> None) @@
    ("TYPE_INT64_SEQ" :> None) @@
    ("TYPE_FLOAT32_SEQ" :> None) @@
    ("TYPE_FLOAT64_SEQ" :> None) @@
    ("TYPE_BOOLEAN_SEQ" :> None) @@
    ("TYPE_STRING_SEQ" :> None) @@
    ("TYPE_CHAR_SEQ" :> None)

\* type_mapping.get(kind, None)
type_mapping_get(kind) ==
    IF kind \in DOMAIN type_mapping THEN type_mapping[kind] ELSE None

map_tag(prefix, tag) ==
    AwsModelMeasurement(prefix \o tag.name, type_mapping_get(tag.kind), tag.unit)

map_output_tag_group_placeholder(tg, res, tg_definition) ==
    IF res
    THEN LET tags == tg_definition.top_level_type.tags
             mapped == [n \in 1..Len(tags) |-> map_tag(tg.name \o "_", tags[n])]
         IN  SelectSeq(mapped, LAMBDA aws : aws # None)
    ELSE <<AwsModelMeasurement(tg.name \o "_", None, None)>>

\* map_output_tag_group after its call of find_tag_group returned
\* (res, tg_definition)
map_output_tag_group(tg, res, tg_definition) ==
    IF res
    THEN LET tags == tg_definition.top_level_type.tags
             mapped == [n \in 1..Len(tags) |-> map_tag(tg.name \o "_", tags[n])]
         IN  SelectSeq(mapped, LAMBDA aws : aws # None)
    ELSE <<>>

map_thing_class_outputs_first(tc, props, outputs) ==
    AwsAssetModel(tc.name, tc.description, Flatten(outputs) \o props, <<>>)

\* map_thing_class after its comprehension built mapped_outputs
map_thing_class(tc, props, outputs) ==
    AwsAssetModel(tc.name, tc.description,
                  IF Len(outputs) > 0 THEN props \o Flatten(outputs) ELSE props,
                  <<>>)

\* os.path.join(tc.context, f'{tc.name}.json')
OutputPath(tc) == tc.context \o "/" \o tc.name \o ".json"

---------------------------------------------------------------------------
(* The registries the Data River discovers *)

Tag(name, kind, unit) == [name |-> name, kind |-> kind, unit |-> unit]

\* every tag group the river can discover, by the id find_tag_group takes
TagGroupDefs ==
    [id \in {"A:v1.0", "B:v1.0"} |->
        IF id = "A:v1.0"
        THEN [name |-> "TgA", top_level_type |->
                [tags |-> <<Tag("x", "TYPE_FLOAT32", Str("C")),
                            Tag("y", "TYPE_UINT64", None)>>]]
        ELSE [name |-> "TgB", top_level_type |->
                [tags |-> <<Tag("z", "TYPE_INT32", Str(""))>>]]]

OutputTagGroup(name, id) == [name |-> name, output_tag_group |-> id]

ThingClass(name, description, context, otgs) ==
    [name |-> name, description |-> description, context |-> context,
     output_tag_groups |-> otgs]

ThingPool ==
    {ThingClass("Pump1", "A pump", "ctx",
                <<OutputTagGroup("A", "A:v1.0"), OutputTagGroup("B", "B:v1.0")>>),
     ThingClass("Valve", "A valve", "ctx", <<OutputTagGroup("B", "B:v1.0")>>),
     ThingClass("Bare", "", "ctx", <<>>)}

\* the registry lists every thing class once
ThingLists ==
    {s \in SeqsUpTo(ThingPool, MaxThings) :
        Len(s) >= 1 /\ \A a, b \in 1..Len(s) : s[a] = s[b] => a = b}

---------------------------------------------------------------------------
(* The run of main() *)

NoReturn == [found |-> FALSE, definition |-> None]

Init ==
    /\ things \in ThingLists
    /\ discovered \in SUBSET DOMAIN TagGroupDefs
    /\ pc = "main"
    /\ ti = 1
    /\ gi = 0
    /\ i = 0
    /\ trace = <<>>
    /\ elapsed = 0
    /\ ret = NoReturn
    /\ resolved = <<>>
    /\ properties = <<>>
    /\ mapped_outputs = <<>>
    /\ model = None
    /\ files = <<>>
    /\ op = "none"
    /\ arg = None
    /\ out = None

\* the thing class and the output tag group being mapped
tc == things[ti]

tg == tc.output_tag_groups[gi]

\* the asynchronous discovery adds a tag group to the discovered registry
Discover(id) ==
    /\ id \notin discovered
    /\ discovered' = discovered \cup {id}
    /\ UNCHANGED <<things, pc, ti, gi, i, trace, elapsed, ret, resolved,
                   properties, mapped_outputs, model, files>>
    /\ UNCHANGED callVars

\* for tc in tcr.thing_classes: map_thing_class(tc, tgr) up to its first
\* call of find_tag_group
BeginThing ==
    /\ pc = "main"
    /\ ti <= Len(things)
    /\ properties' = <<AwsModelAttribute("contextId", Str("STRING"), Str(""), Str("")),
                       AwsModelAttribute("description", Str("STRING"), Str(""), Str(""))>>
    /\ mapped_outputs' = <<>>
    /\ resolved' = <<>>
    /\ IF Len(tc.output_tag_groups) = 0
       THEN /\ pc' = "assemble"
            /\ UNCHANGED <<gi, i, trace, elapsed>>
       ELSE /\ pc' = "lookup"
            /\ gi' = 1
            /\ i' = 0
            /\ trace' = <<>>
            /\ elapsed' = 0
    /\ UNCHANGED <<things, discovered, ti, ret, model, files>>
    /\ UNCHANGED callVars

\* tgr.find_tag_group(tag_group_name) returns the definition
LookupOk ==
    /\ pc = "lookup"
    /\ tg.output_tag_group \in discovered
    /\ trace' = Append(trace, "ok")
    /\ ret' = [found |-> TRUE, definition |-> TagGroupDefs[tg.output_tag_group]]
    /\ pc' = "mapgroup"
    /\ UNCHANGED <<things, discovered, ti, gi, i, elapsed, resolved,
                   properties, mapped_outputs, model, files>>
    /\ UNCHANGED callVars

LookupNotFound_no_sleep ==
    /\ pc = "lookup"
    /\ tg.output_tag_group \notin discovered
    /\ trace' = Append(trace, "nf")
    /\ i' = i + 1
    /\ IF i + 1 = RetryCount
       THEN /\ ret' = NoReturn
            /\ pc' = "mapgroup"
       ELSE /\ pc' = "lookup"
            /\ UNCHANGED ret
    /\ UNCHANGED <<things, discovered, ti, gi, elapsed, resolved,
                   properties, mapped_outputs, model, files>>
    /\ UNCHANGED callVars

\* tgr.find_tag_group(tag_group_name) raises InvalidArgumentError
LookupNotFound ==
    /\ pc = "lookup"
    /\ tg.output_tag_group \notin discovered
    /\ trace' = Append(trace, "nf")
    /\ pc' = "sleep"
    /\ UNCHANGED <<things, discovered, ti, gi, i, elapsed, ret, resolved,
                   properties, mapped_outputs, model, files>>
    /\ UNCHANGED callVars

LookupHardFail_retried ==
    /\ pc = "lookup"
    /\ trace' = Append(trace, "err")
    /\ pc' = "sleep"
    /\ UNCHANGED <<things, discovered, ti, gi, i, elapsed, ret, resolved,
                   properties, mapped_outputs, model, files>>
    /\ UNCHANGED callVars

\* tgr.find_tag_group(tag_group_name) raises another exception, which no
\* frame up to main() catches
LookupHardFail ==
    /\ pc = "lookup"
    /\ trace' = Append(trace, "err")
    /\ pc' = "crashed"
    /\ UNCHANGED <<things, discovered, ti, gi, i, elapsed, ret, resolved,
                   properties, mapped_outputs, model, files>>
    /\ UNCHANGED callVars

Sleep_one_short ==
    /\ pc = "sleep"
    /\ trace' = Append(trace, "sleep")
    /\ elapsed' = elapsed + SleepMs
    /\ i' = i + 1
    /\ IF i + 1 >= RetryCount - 1
       THEN /\ ret' = NoReturn
            /\ pc' = "mapgroup"
       ELSE /\ pc' = "lookup"
            /\ UNCHANGED ret
    /\ UNCHANGED <<things, discovered, ti, gi, resolved, properties,
                   mapped_outputs, model, files>>
    /\ UNCHANGED callVars

\* time.sleep(100.0 / 1000.0), then the next i of range(0, 50) or
\* return False, None
Sleep ==
    /\ pc = "sleep"
    /\ trace' = Append(trace, "sleep")
    /\ elapsed' = elapsed + SleepMs
    /\ i' = i + 1
    /\ IF i + 1 = RetryCount
       THEN /\ ret' = NoReturn
            /\ pc' = "mapgroup"
       ELSE /\ pc' = "lookup"
            /\ UNCHANGED ret
    /\ UNCHANGED <<things, discovered, ti, gi, resolved, properties,
                   mapped_outputs, model, files>>
    /\ UNCHANGED callVars

\* the rest of map_output_tag_group, and the next tg of the comprehension
MapGroup ==
    /\ pc = "mapgroup"
    /\ mapped_outputs' =
          Append(mapped_outputs,
                 map_output_tag_group(tg, ret.found, ret.definition))
    /\ resolved' = Append(resolved, ret.found)
    /\ IF gi < Len(tc.output_tag_groups)
       THEN /\ pc' = "lookup"
            /\ gi' = gi + 1
            /\ i' = 0
            /\ trace' = <<>>
            /\ elapsed' = 0
       ELSE /\ pc' = "assemble"
            /\ UNCHANGED <<gi, i, trace, elapsed>>
    /\ UNCHANGED <<things, discovered, ti, ret, properties, model, files>>
    /\ UNCHANGED callVars

\* the rest of map_thing_class: model = map_thing_class(tc, tgr)
Assemble ==
    /\ pc = "assemble"
    /\ model' = map_thing_class(tc, properties, mapped_outputs)
    /\ pc' = "write"
    /\ UNCHANGED <<things, discovered, ti, gi, i, trace, elapsed, ret,
                   resolved, properties, mapped_outputs, files>>
    /\ UNCHANGED callVars

\* json.dump(model.to_dict(), outfile), then the next tc
WriteFile ==
    /\ pc = "write"
    /\ files' = [f \in DOMAIN files \cup {OutputPath(tc)} |->
                    IF f = OutputPath(tc) THEN AwsAssetModel_to_dict(model)
                    ELSE files[f]]
    /\ ti' = ti + 1
    /\ pc' = "main"
    /\ UNCHANGED <<things, discovered, gi, i, trace, elapsed, ret, resolved,
                   properties, mapped_outputs, model>>
    /\ UNCHANGED callVars

\* the loop of main() is over
Finish ==
    /\ pc = "main"
    /\ ti > Len(things)
    /\ pc' = "done"
    /\ UNCHANGED <<things, discovered, ti, gi, i, trace, elapsed, ret,
                   resolved, properties, mapped_outputs, model, files>>
    /\ UNCHANGED callVars

\* a step of the script
Step ==
    \/ BeginThing
    \/ LookupOk
    \/ LookupNotFound
    \/ LookupHardFail
    \/ Sleep
    \/ MapGroup
    \/ Assemble
    \/ WriteFile
    \/ Finish

Next ==
    \/ \E id \in DOMAIN TagGroupDefs : Discover(id)
    \/ Step

Spec == Init /\ [][Next]_vars

\* the interpreter keeps running the script until it returns or raises
FairSpec == Spec /\ WF_vars(Step)

---------------------------------------------------------------------------
(* Calls of the serialization and projection functions on their own *)

OptStrs == {None, Str(""), Str("C")}

DataTypes == {None, Str("STRING"), Str("DOUBLE")}

VariablePool ==
    {AwsModelVariable("v", pid, hid) :
        pid \in {None, Str("p1")}, hid \in {None, Str("h1")}}

VariableLists == SeqsUpTo(VariablePool, MaxVars)

PropertyPool ==
    {AwsModelAttribute("p", dt, u, dv) :
        dt \in DataTypes, u \in OptStrs, dv \in {None, Str("")}}
    \cup {AwsModelMeasurement("p", dt, u) : dt \in DataTypes, u \in OptStrs}
    \cup {AwsModelTransform("p", dt, u, "a + b", vs) :
            dt \in DataTypes, u \in OptStrs, vs \in VariableLists}
    \cup {AwsModelMetric("p", dt, u, "avg(a)", vs, AwsModelMetricWindow("5m")) :
            dt \in DataTypes, u \in OptStrs, vs \in VariableLists}

CallInit ==
    /\ things = <<>>
    /\ discovered = {}
    /\ pc = "call"
    /\ ti = 1
    /\ gi = 0
    /\ i = 0
    /\ trace = <<>>
    /\ elapsed = 0
    /\ ret = NoReturn
    /\ resolved = <<>>
    /\ properties = <<>>
    /\ mapped_outputs = <<>>
    /\ model = None
    /\ files = <<>>
    /\ op = "none"
    /\ arg = None
    /\ out = None

CallPropertyToDict(p) ==
    /\ op' = "AwsModelProperty.to_dict"
    /\ arg' = p
    /\ out' = AwsModelProperty_to_dict(p)
    /\ UNCHANGED mainVars

CallVariableToDict(v) ==
    /\ op' = "AwsModelVariable.to_dict"
    /\ arg' = v
    /\ out' = AwsModelVariable_to_dict(v)
    /\ UNCHANGED mainVars

CallTypeMapping(kind) ==
    /\ op' = "type_mapping.get"
    /\ arg' = kind
    /\ out' = type_mapping_get(kind)
    /\ UNCHANGED mainVars

CallNext ==
    \/ \E p \in PropertyPool : CallPropertyToDict(p)
    \/ \E v \in VariablePool : CallVariableToDict(v)
    \/ \E kind \in IotType \cup UnknownKinds : CallTypeMapping(kind)

CallSpec == CallInit /\ [][CallNext]_vars

---------------------------------------------------------------------------
(* Properties of find_tag_group *)

IsLookup(e) == e \in {"ok", "nf", "err"}

Lookups(t) == SelectSeq(t, IsLookup)

Sleeps(t) == SelectSeq(t, LAMBDA e : e = "sleep")

InFindTagGroup == pc \in {"lookup", "sleep"}

FindTagGroupOutcome ==
    /\ Len(Lookups(trace)) <= RetryCount
    /\ (\E j \in 1..Len(trace) : trace[j] = "ok") => ret.found
    /\ pc = "mapgroup" =>
          LET ls == Lookups(trace)
              k == Len(ls)
          IN  /\ ret.found =>
                    /\ k \in 1..RetryCount
                    /\ \A j \in 1..(k - 1) : ls[j] = "nf"
                    /\ ls[k] = "ok"
                    /\ ret.definition = TagGroupDefs[tg.output_tag_group]
              /\ ~ret.found =>
                    /\ k = RetryCount
                    /\ \A j \in 1..k : ls[j] = "nf"
                    /\ ret.definition = None

\* C1: find_tag_group returns (True, the definition) right after the first
\* successful lookup, the k-th of at most 50, all earlier ones having failed
\* with InvalidArgumentError; after 50 such failures it returns (False, None)
\* with exactly 50 lookups made; and every call of it ends.
C1_BoundedRetryOutcome ==
    /\ []FindTagGroupOutcome
    /\ (InFindTagGroup ~> (pc \in {"mapgroup", "crashed"}))

C1_Witness_SuccessOnLastAttempt ==
    /\ pc = "mapgroup"
    /\ ret.found
    /\ Len(Lookups(trace)) = RetryCount

\* C10: a successful lookup is the last step of find_tag_group, a lookup
\* and the next lookup have exactly one 100 ms sleep between them, and a call
\* that returns (False, None) has slept at least 49 times, 4900 ms.
C10_RetrySpacing ==
    /\ \A j \in 1..Len(trace) : trace[j] = "ok" => j = Len(trace)
    /\ \A j \in 1..(Len(trace) - 1) :
          /\ IsLookup(trace[j]) => trace[j + 1] = "sleep"
          /\ trace[j] = "sleep" => IsLookup(trace[j + 1])
    /\ trace # <<>> => IsLookup(trace[1])
    /\ elapsed = SleepMs * Len(Sleeps(trace))
    /\ (pc = "mapgroup" /\ ~ret.found) =>
          /\ Len(Sleeps(trace)) >= RetryCount - 1
          /\ elapsed >= (RetryCount - 1) * SleepMs

C10_Witness_Exhausted ==
    /\ pc = "mapgroup"
    /\ ~ret.found
    /\ Len(Lookups(trace)) = RetryCount

---------------------------------------------------------------------------
(* Properties of map_thing_class and main *)

Last(t) == t[Len(t)]

\* C2: a lookup that fails with another error than InvalidArgumentError is
\* the last lookup and the last step of the run: nothing retries it, nothing
\* sleeps after it, and the thing being mapped gets no model and no file.
C2_HardFailureAborts ==
    /\ \A j \in 1..Len(trace) :
          trace[j] = "err" => (j = Len(trace) /\ pc = "crashed")
    /\ pc = "crashed" =>
          /\ trace # <<>>
          /\ Last(trace) = "err"
          /\ OutputPath(tc) \notin DOMAIN files
          /\ (model = None \/ model.name # tc.name)

C2_Witness_CrashAfterResolvedGroup ==
    /\ pc = "crashed"
    /\ gi = 2
    /\ resolved = <<TRUE>>
    /\ mapped_outputs[1] # <<>>

FixedAttributes ==
    <<AwsModelAttribute("contextId", Str("STRING"), Str(""), Str("")),
      AwsModelAttribute("description", Str("STRING"), Str(""), Str(""))>>

TagsOf(otg) == TagGroupDefs[otg.output_tag_group].top_level_type.tags

\* C3: a tag group whose 50 lookups all fail contributes no property and
\* no error: the run does not stop there, the model is built, every resolved
\* tag group contributes one property per tag, and a thing whose only tag
\* group never resolves gets exactly contextId and description.
C3_UnresolvedGroupSkipped ==
    /\ pc = "crashed" => Len(SelectSeq(trace, LAMBDA e : e = "nf")) < RetryCount
    /\ pc \in {"assemble", "write"} =>
          /\ Len(mapped_outputs) = Len(tc.output_tag_groups)
          /\ \A g \in 1..Len(mapped_outputs) :
                IF resolved[g]
                THEN Len(mapped_outputs[g]) = Len(TagsOf(tc.output_tag_groups[g]))
                ELSE mapped_outputs[g] = <<>>
    /\ pc = "write" =>
          /\ model.name = tc.name
          /\ Len(model.properties) = 2 + Len(Flatten(mapped_outputs))
          /\ resolved = <<FALSE>> => model.properties = FixedAttributes

C3_Witness_SoleGroupUnresolved ==
    /\ pc = "write"
    /\ resolved = <<FALSE>>
    /\ Len(Lookups(trace)) = RetryCount

\* the names '<tag group name>_<tag name>' of a declared tag group
ExpectedNames(otg) ==
    [n \in 1..Len(TagsOf(otg)) |-> otg.name \o "_" \o TagsOf(otg)[n].name]

\* C4: the properties of the model are contextId and description (STRING
\* attributes, unit and default ''), then for every resolved tag group in
\* declaration order one measurement per tag in tag order, named
\* '<tag group name>_<tag name>'; the hierarchies are empty.
C4_PropertyOrderAndNames ==
    pc = "write" =>
        LET otgs == tc.output_tag_groups
            expected == Flatten([g \in 1..Len(otgs) |->
                            IF resolved[g] THEN ExpectedNames(otgs[g]) ELSE <<>>])
            props == model.properties
        IN  /\ Len(props) = 2 + Len(expected)
            /\ props[1] = AwsModelAttribute("contextId", Str("STRING"), Str(""), Str(""))
            /\ props[2] = AwsModelAttribute("description", Str("STRING"), Str(""), Str(""))
            /\ \A n \in 1..Len(expected) :
                  /\ props[2 + n].cls = "AwsModelMeasurement"
                  /\ props[2 + n].name = expected[n]
            /\ model.hierarchies = <<>>
            /\ (tc.name = "Pump1" /\ resolved = <<TRUE, TRUE>>) =>
                  [n \in 1..Len(props) |-> props[n].name]
                      = <<"contextId", "description", "A_x", "A_y", "B_z">>

C4_Witness_TwoGroupsResolved ==
    /\ pc = "write"
    /\ tc.name = "Pump1"
    /\ resolved = <<TRUE, TRUE>>

\* C6: no property of a model returned by map_thing_class has an absent
\* output type (a tag of an unsupported type is left out).
C6_NoAbsentOutputType ==
    pc = "write" =>
        \A n \in 1..Len(model.properties) : model.properties[n].data_type # None

\* C9: when the run has ended, by returning or by a hard lookup failure,
\* every thing but the one whose mapping failed has its document written.
C9_ThingsIsolated ==
    pc \in {"done", "crashed"} =>
        \A j \in 1..Len(things) :
            (pc = "crashed" /\ j = ti) \/ OutputPath(things[j]) \in DOMAIN files

---------------------------------------------------------------------------
(* Properties of the functions *)

\* C5: type_mapping.get(kind, None) is INTEGER for the 8-bit types, the
\* 16- and 32-bit unsigned and the 16-, 32- and 64-bit signed, DOUBLE for the
\* floats, BOOLEAN for boolean, STRING for string, and None for 64-bit
\* unsigned, char, every sequence type and every other value.
C5_TypeProjection ==
    op = "type_mapping.get" =>
        /\ out \in {Str("INTEGER"), Str("DOUBLE"), Str("BOOLEAN"), Str("STRING"), None}
        /\ out = Str("INTEGER") <=>
              arg \in {"TYPE_INT8", "TYPE_BYTE", "TYPE_UINT16", "TYPE_UINT32",
                       "TYPE_INT16", "TYPE_INT32", "TYPE_INT64"}
        /\ out = Str("DOUBLE") <=> arg \in {"TYPE_FLOAT32", "TYPE_FLOAT64"}
        /\ out = Str("BOOLEAN") <=> arg = "TYPE_BOOLEAN"
        /\ out = Str("STRING") <=> arg = "TYPE_STRING"
        /\ arg \in {"TYPE_UINT64", "TYPE_CHAR"} \cup IotTypeSeqs \cup UnknownKinds
              => out = None

C5_Witness_Uint64Unsupported ==
    /\ op = "type_mapping.get"
    /\ arg = "TYPE_UINT64"
    /\ out = None

VariablesPayload(vs) ==
    [n \in 1..Len(vs) |->
        [name |-> vs[n].name,
         value |-> [k \in ({"propertyId"} \cap
                              (IF vs[n].property_id # None THEN {"propertyId"} ELSE {}))
                          \cup ({"hierarchyId"} \cap
                              (IF vs[n].hierarchy_id # None THEN {"hierarchyId"} ELSE {}))
                    |-> IF k = "propertyId" THEN vs[n].property_id
                        ELSE vs[n].hierarchy_id]]]

\* C7: to_dict gives every property a type that is a dict with the one key
\* of its variant, attribute, measurement, transform or metric, whose value
\* holds the variant's fields: defaultValue; nothing; expression and
\* variables; expression, variables and the tumbling window.
C7_VariantPayload ==
    op = "AwsModelProperty.to_dict" =>
        out.type =
            CASE arg.cls = "AwsModelAttribute" ->
                    [attribute |-> [defaultValue |-> arg.default_value]]
              [] arg.cls = "AwsModelMeasurement" ->
                    [measurement |-> <<>>]
              [] arg.cls = "AwsModelTransform" ->
                    [transform |-> [expression |-> arg.expression,
                                    variables |-> VariablesPayload(arg.variables)]]
              [] arg.cls = "AwsModelMetric" ->
                    [metric |-> [expression |-> arg.expression,
                                 variables |-> VariablesPayload(arg.variables),
                                 window |-> [tumbling |->
                                               [interval |-> arg.window.interval]]]]

VariableValueKeys(v) ==
    (IF v.property_id # None THEN {"propertyId"} ELSE {})
        \cup (IF v.hierarchy_id # None THEN {"hierarchyId"} ELSE {})

\* C8: a serialized property has the key unit exactly when its unit is not
\* None (an empty unit is kept), and the value of a serialized variable has
\* propertyId exactly when property_id is not None and hierarchyId exactly
\* when hierarchy_id is not None.
C8_OptionalFieldsOmitted ==
    /\ op = "AwsModelProperty.to_dict" =>
          /\ "unit" \in DOMAIN out <=> arg.unit # None
          /\ "unit" \in DOMAIN out => out["unit"] = arg.unit
          /\ arg.cls = "AwsModelTransform" =>
                \A n \in 1..Len(arg.variables) :
                    DOMAIN out.type.transform.variables[n].value
                        = VariableValueKeys(arg.variables[n])
    /\ op = "AwsModelVariable.to_dict" =>
          /\ DOMAIN out.value = VariableValueKeys(arg)
          /\ (arg.property_id # None /\ arg.hierarchy_id = None) =>
                out.value = [propertyId |-> arg.property_id]

C8_Witness_EmptyUnitKept ==
    /\ op = "AwsModelProperty.to_dict"
    /\ arg.cls = "AwsModelTransform"
    /\ arg.unit = Str("")
    /\ out["unit"] = Str("")
    /\ Len(arg.variables) = 1
    /\ arg.variables[1].property_id # None
    /\ arg.variables[1].hierarchy_id = None

====
